---- MODULE Spec2Model ----
(***************************************************************************)
(* Model of the quiz viewer (src/src/app.rs): the application state        *)
(* MyApp, one redraw MyApp::update, and the background file-load tasks     *)
(* started by file_dialog, which deliver texts over an mpsc channel.       *)
(*                                                                         *)
(* A redraw is one action.  Its inputs are the head of the channel (the    *)
(* non-blocking try_recv) and at most one user interaction: every          *)
(* `clicked()` of the handler reads the same frame's single pointer        *)
(* event, and the claims speak of sequences of single user actions.  A     *)
(* delivery and a user interaction may fall into the same redraw.          *)
(***************************************************************************)
EXTENDS Integers, Sequences, FiniteSets, TLC

(***************************************************************************)
(* Bounds of the model.                                                    *)
(***************************************************************************)
MaxEntry   == 3   \* largest number the user types into the index field
MaxLoads   == 1   \* Spec: file-load tasks in flight at the same time
MaxPending == 1   \* Spec: texts pending in the channel
MaxTasks   == 2   \* SpecBridge: file-load tasks in flight at the same time
MaxChan    == 2   \* SpecBridge: texts pending in the channel
MaxScale   == 45  \* SpecScale: largest display scale, in steps of 0.1

USIZE_MAX == 2147483647   \* stands for usize::MAX (saturating_add)

(***************************************************************************)
(* Question records and the four fields of `Show`.                         *)
(***************************************************************************)
Fields == {"question", "hint1", "hint2", "answer"}

Question(q, h1, h2, a) ==
    [question |-> q, hint1 |-> h1, hint2 |-> h2, answer |-> a]

Show(q, h1, h2, a) ==
    [question |-> q, hint1 |-> h1, hint2 |-> h2, answer |-> a]

ShowDefault == Show(FALSE, FALSE, FALSE, FALSE)

(***************************************************************************)
(* Option<T> and Result<T, E>, as far as the program looks at them.        *)
(***************************************************************************)
None    == [some |-> FALSE, val |-> <<>>]
Some(v) == [some |-> TRUE, val |-> v]
Err     == [ok |-> FALSE, val |-> <<>>]
Ok(v)   == [ok |-> TRUE, val |-> v]

(***************************************************************************)
(* Texts.  A text is named by a string; Json(text) is the JSON document    *)
(* it spells: "bad" for a text that is not JSON, an array with its items,  *)
(* an object with its members in order as <<key, value>> pairs, a string,  *)
(* a number.                                                               *)
(***************************************************************************)
JStr(s)      == [t |-> "str", s |-> s, items |-> <<>>]
JNum         == [t |-> "num", s |-> "", items |-> <<>>]
JObj(pairs)  == [t |-> "obj", s |-> "", items |-> pairs]
JArr(items)  == [t |-> "arr", s |-> "", items |-> items]
JBad         == [t |-> "bad", s |-> "", items |-> <<>>]

JRecord(q, h1, h2, a) ==
    JObj(<< <<"question", JStr(q)>>, <<"hint1", JStr(h1)>>,
            <<"hint2", JStr(h2)>>, <<"answer", JStr(a)>> >>)

Texts == {"one", "two", "empty", "missing", "nojson"}

Json(text) ==
    CASE text = "one" ->
           \* [{"question":"Q1","hint1":"H1","hint2":"H2","answer":"A1"}]
           JArr(<< JRecord("Q1", "H1", "H2", "A1") >>)
      [] text = "two" ->
           \* two records; the second has its members in another order and
           \* one more member, which the derived Deserialize skips
           JArr(<< JRecord("Q2", "H3", "H4", "A2"),
                   JObj(<< <<"answer", JStr("A3")>>, <<"note", JNum>>,
                           <<"question", JStr("Q3")>>,
                           <<"hint1", JStr("H5")>>,
                           <<"hint2", JStr("H6")>> >>) >>)
      [] text = "empty" ->
           \* []
           JArr(<< >>)
      [] text = "missing" ->
           \* a good record, then one without "answer" and with a number
           \* as "hint1"
           JArr(<< JRecord("Q1", "H1", "H2", "A1"),
                   JObj(<< <<"question", JStr("Q4")>>, <<"hint1", JNum>>,
                           <<"hint2", JStr("H2")>> >>) >>)
      [] OTHER -> JBad

(***************************************************************************)
(* serde_json::from_str::<Vec<Question>>: the text must be an array whose  *)
(* items are objects with each of the four members exactly once, as a      *)
(* string; other members are skipped.                                      *)
(***************************************************************************)
Members(obj, key) ==
    {i \in 1..Len(obj.items) : obj.items[i][1] = key}

IsQuestion(v) ==
    /\ v.t = "obj"
    /\ \A f \in Fields :
          /\ Cardinality(Members(v, f)) = 1
          /\ \A i \in Members(v, f) : v.items[i][2].t = "str"

Member(obj, key) ==
    obj.items[CHOOSE i \in Members(obj, key) : TRUE][2].s

ToQuestion(v) ==
    Question(Member(v, "question"), Member(v, "hint1"),
             Member(v, "hint2"), Member(v, "answer"))

Deserialize(text) ==
    LET doc == Json(text)
    IN  IF /\ doc.t = "arr"
           /\ \A i \in 1..Len(doc.items) : IsQuestion(doc.items[i])
        THEN Ok([i \in 1..Len(doc.items) |-> ToQuestion(doc.items[i])])
        ELSE Err

\* the texts are few: each is parsed once
Parsed == [text \in Texts |-> Deserialize(text)]

from_str(text) == Parsed[text]

(***************************************************************************)
(* The bytes of a file: those of a text, or bytes that are not UTF-8.      *)
(***************************************************************************)
FileData == [utf8 : {TRUE}, text : Texts] \cup {[utf8 |-> FALSE, text |-> ""]}

\* String::from_utf8(data)
from_utf8(data) == IF data.utf8 THEN Ok(data.text) ELSE Err

(***************************************************************************)
(* usize and f32 arithmetic the program uses.                              *)
(***************************************************************************)
SaturatingSub(n) == IF n = 0 THEN 0 ELSE n - 1
SaturatingAdd(n) == IF n = USIZE_MAX THEN USIZE_MAX ELSE n + 1
Clamp(n, lo, hi) == IF n < lo THEN lo ELSE IF n > hi THEN hi ELSE n
Max(a, b)        == IF a >= b THEN a ELSE b

(***************************************************************************)
(* The display scale, in steps of 0.1.                                     *)
(***************************************************************************)
PixelsDefault == 40    \* pixels_per_point: 4.0
PixelsFloor   == 1     \* .max(0.1)

(***************************************************************************)
(* The user's interaction with one redraw: none, or one control.           *)
(***************************************************************************)
Input(k, v, f) == [kind |-> k, v |-> v, f |-> f]

NoInput == Input("none", 0, "")

Inputs ==
    {Input(k, 0, "") : k \in {"none", "plus", "minus", "open", "dec", "inc"}}
    \cup {Input("entry", n, "") : n \in 0..MaxEntry}
    \cup {Input("toggle", 0, f) : f \in Fields}

VARIABLES
    app,        \* MyApp: pixels_per_point, questions, question_nr,
                \*        prev_question_nr, show
    chan,       \* file_io: the texts sent and not yet received, oldest first
    tasks,      \* how many file-load tasks stand at each of their two awaits
    ended,      \* the task that ended in the last step, if one did: how it
                \* ended and the bytes it had read
    repaint,    \* ctx.request_repaint() was called since the last redraw
    storage,    \* what the host's key-value store holds under APP_KEY
    frame,      \* what the last redraw received, handled and drew
    activated   \* of the fields in Tracked, those whose toggle the user
                \* activated since the record drawn by the last redraw
                \* became the current one

vars == <<app, chan, tasks, ended, repaint, storage, frame, activated>>

\* the fields whose activations are recorded
Tracked == {"question"}

(***************************************************************************)
(* impl Default for MyApp                                                  *)
(***************************************************************************)
MyAppDefault ==
    [pixels_per_point |-> PixelsDefault,
     questions        |-> None,
     question_nr      |-> 0,
     prev_question_nr |-> 0,
     show             |-> ShowDefault]

(***************************************************************************)
(* Persistence.  The store holds nothing under APP_KEY, a text that does   *)
(* not decode, or a document with some of the fields of MyApp; the host    *)
(* may also run without a store.  file_io is #[serde(skip)].               *)
(***************************************************************************)
PersistedFields ==
    {"pixels_per_point", "questions", "question_nr", "prev_question_nr", "show"}

Stored(k, doc) == [kind |-> k, doc |-> doc]

NoStorage == Stored("none", <<>>)       \* cc.storage is None
Absent    == Stored("absent", <<>>)     \* no value under APP_KEY
Garbage   == Stored("garbage", <<>>)    \* a value that does not decode

\* a document written by a version of the program that had the scale only
OldDocument == Stored("document", [pixels_per_point |-> 20])

\* set_value writing the record without `questions`
SetValueSkipsQuiz(a) ==
    Stored("document",
           [f \in PersistedFields \ {"questions"} |-> a[f]])

\* eframe::set_value(storage, eframe::APP_KEY, self)
set_value(a) == Stored("document", [f \in PersistedFields |-> a[f]])

\* eframe::get_value(storage, eframe::APP_KEY), with #[serde(default)]:
\* a field the document lacks takes the value of MyApp::default()
get_value(st) ==
    IF st.kind = "document"
    THEN Some([f \in PersistedFields |->
                  IF f \in DOMAIN st.doc THEN st.doc[f] ELSE MyAppDefault[f]])
    ELSE None

\* Option::unwrap_or_default
unwrap_or_default(o) == IF o.some THEN o.val ELSE MyAppDefault

\* MyApp::new without `app.show = Default::default()`
NewKeepsShow(st) ==
    IF st.kind # "none" THEN unwrap_or_default(get_value(st)) ELSE MyAppDefault

\* MyApp::new(cc)
new(st) ==
    IF st.kind # "none"
    THEN [unwrap_or_default(get_value(st)) EXCEPT !.show = ShowDefault]
    ELSE MyAppDefault

(***************************************************************************)
(* MyApp::update, in the order of its statements.                          *)
(***************************************************************************)
\* if self.question_nr != self.prev_question_nr { ... }
ResetOnChange(a) ==
    IF a.question_nr # a.prev_question_nr
    THEN [a EXCEPT !.prev_question_nr = a.question_nr, !.show = ShowDefault]
    ELSE a

\* try_recv taking the text sent last
TryRecvNewest(c) == IF c = <<>> THEN Err ELSE Ok(c[Len(c)])

\* self.file_io.1.try_recv()
try_recv(c) == IF c = <<>> THEN Err ELSE Ok(Head(c))

\* the blocking recv(): it returns once a text is there
RecvReturns(c) == c # <<>>

\* try_recv returns at once, whether or not a text is there
TryRecvReturns(c) == TRUE

\* the channel after `while let Ok(quiz) = try_recv()`
Drained(c) == <<>>

\* the channel after try_recv
Received(c) == IF c = <<>> THEN c ELSE Tail(c)

\* Accepts without `quiz.len() >= 1`
AcceptsEmpty(text) == from_str(text).ok

\* if let Ok(quiz) = from_str(&quiz) { if quiz.len() >= 1 {
Accepts(text) == from_str(text).ok /\ Len(from_str(text).val) >= 1

\* LoadQuiz without `self.question_nr = 0`
LoadKeepsIndex(a, text) ==
    IF Accepts(text)
    THEN [a EXCEPT !.questions = Some(from_str(text).val)]
    ELSE a

\* self.questions = Some(quiz); self.question_nr = 0; } }
LoadQuiz(a, text) ==
    IF Accepts(text)
    THEN [a EXCEPT !.questions = Some(from_str(text).val), !.question_nr = 0]
    ELSE a

\* if let Ok(quiz) = self.file_io.1.try_recv() { ... }
Poll(a, msg) == IF msg.ok THEN LoadQuiz(a, msg.val) ELSE a

\* ScaleButtons without `.max(0.1)`
ScaleNoFloor(a, in) ==
    CASE in.kind = "plus"  ->
           [a EXCEPT !.pixels_per_point = a.pixels_per_point + 1]
      [] in.kind = "minus" ->
           [a EXCEPT !.pixels_per_point = a.pixels_per_point - 1]
      [] OTHER -> a

\* the "+" and the "−" button
ScaleButtons(a, in) ==
    CASE in.kind = "plus"  ->
           [a EXCEPT !.pixels_per_point = a.pixels_per_point + 1]
      [] in.kind = "minus" ->
           [a EXCEPT !.pixels_per_point =
                         Max(a.pixels_per_point - 1, PixelsFloor)]
      [] OTHER -> a

\* self.questions.as_ref().map(|q| q.get(self.question_nr)), flattened
CurrentQuestion(a) ==
    IF a.questions.some /\ a.question_nr < Len(a.questions.val)
    THEN Some(a.questions.val[a.question_nr + 1])
    ELSE None

\* DecButton with wrapping_sub(1)
DecWraps(nr, in) ==
    IF in.kind = "dec" THEN (IF nr = 0 THEN USIZE_MAX ELSE nr - 1) ELSE nr

\* the "<<" button
DecButton(nr, in) == IF in.kind = "dec" THEN SaturatingSub(nr) ELSE nr

\* DragValue with the range 0..=questions.len() + 1
DragValueWide(nr, len, in) ==
    IF in.kind = "entry" THEN Clamp(in.v, 0, len + 1)
                         ELSE Clamp(nr, 0, len + 1)

\* DragValue::new(&mut self.question_nr).range(0..=questions.len())
DragValue(nr, len, in) ==
    IF in.kind = "entry" THEN Clamp(in.v, 0, len) ELSE Clamp(nr, 0, len)

\* the ">>" button
IncButton(nr, in) == IF in.kind = "inc" THEN SaturatingAdd(nr) ELSE nr

\* ui.horizontal(|ui| { "<<", DragValue, ">>" })
Navigation(a, in) ==
    [a EXCEPT !.question_nr =
        IncButton(DragValue(DecButton(a.question_nr, in),
                            Len(a.questions.val), in), in)]

\* Toggles with `|= true`
TogglesSet(a, in) ==
    IF in.kind = "toggle"
    THEN [a EXCEPT !.show[in.f] = TRUE]
    ELSE a

\* the four toggle buttons: self.show.<field> ^= true
Toggles(a, in) ==
    IF in.kind = "toggle"
    THEN [a EXCEPT !.show[in.f] = ~a.show[in.f]]
    ELSE a

\* CentralPanel drawing its controls for every Some(_)
PanelWhenLoaded(a, in) ==
    IF a.questions.some THEN Toggles(Navigation(a, in), in) ELSE a

\* the central panel: its controls are drawn only for Some(Some(question))
CentralPanel(a, in) ==
    IF CurrentQuestion(a).some THEN Toggles(Navigation(a, in), in) ELSE a

\* the fields whose text the labels of the central panel show: a0 is the
\* state the panel starts with, a1 the state it ends with
Labels(a0, a1) ==
    IF CurrentQuestion(a0).some THEN {f \in Fields : a1.show[f]} ELSE {}

\* the state when the panels are drawn, and when update returns
AtRender(a, msg)        == Poll(ResetOnChange(a), msg)
AfterUpdate(a, msg, in) == CentralPanel(ScaleButtons(AtRender(a, msg), in), in)

(***************************************************************************)
(* file_dialog and the task it spawns.                                     *)
(***************************************************************************)
InFlight(ts) == ts.PickerOpen + ts.Reading

\* file_dialog(tx, ctx): execute(async move { ... }), the task at task.await
file_dialog(ts) == [ts EXCEPT !.PickerOpen = ts.PickerOpen + 1]

\* the "Quiz öffnen" button
OpenButton(ts, in) == IF in.kind = "open" THEN file_dialog(ts) ELSE ts

\* Deliver sending whatever from_utf8 says
DeliverAlways(c, data) == Append(c, data.text)

\* if let Ok(text) = String::from_utf8(data) { let _ = tx.send(text); }
Deliver(c, data) ==
    IF from_utf8(data).ok THEN Append(c, from_utf8(data).val) ELSE c

\* ... ctx.request_repaint(); }  Any number of requests before a redraw
\* asks for one redraw.
RequestRepaint(r, data) == r \/ from_utf8(data).ok

NoTask == [state |-> "Idle", data |-> [utf8 |-> FALSE, text |-> ""]]

(***************************************************************************)
(* The user operates what is on the screen: a control of the central       *)
(* panel only if the last redraw drew that panel's controls.  (The         *)
(* redraw that handles the click may not draw them any more, and then      *)
(* the click is lost.)                                                     *)
(***************************************************************************)
PanelKinds == {"dec", "entry", "inc", "toggle"}

OnScreen(in) == in.kind \in PanelKinds => frame.drawn

(***************************************************************************)
(* The interactions a specification explores: those of the set `ins`,      *)
(* with at most `cap` tasks in flight.                                     *)
(***************************************************************************)
Explored(in, ins, cap) ==
    /\ in \in ins
    /\ OnScreen(in)
    /\ in.kind = "open" => InFlight(tasks) < cap

\* Spec: every control but the two scale buttons, which touch
\* pixels_per_point alone
QuizInputs == {in \in Inputs : in.kind \notin {"plus", "minus"}}

\* SpecBridge: the controls that start a load or move the index
BridgeInputs == {in \in Inputs : in.kind \in {"none", "open", "dec", "inc", "entry"}}

\* no redraw has run since the program started
NoFrame == [input |-> Input("start", 0, ""), recv |-> "none", question_nr |-> 0,
            show |-> ShowDefault, drawn |-> FALSE, displayed |-> {},
            changed |-> FALSE, changed_before |-> FALSE]

\* the program starts with `st` in the store
Start(st) ==
    /\ app = new(st)
    /\ chan = <<>>
    /\ tasks = [PickerOpen |-> 0, Reading |-> 0]
    /\ ended = NoTask
    /\ repaint = FALSE
    /\ storage = st
    /\ frame = NoFrame
    /\ activated = {}

Init == Start(Absent)

\* how a redraw took what try_recv gave it
Taken(msg) ==
    IF ~msg.ok THEN "none"
    ELSE IF Accepts(msg.val) THEN "accepted"
    ELSE IF from_str(msg.val).ok THEN "empty" ELSE "rejected"

\* one redraw: fn update(&mut self, ctx, _frame)
Update(in) ==
    LET msg == try_recv(chan)
        mid == AtRender(app, msg)
        end == AfterUpdate(app, msg, in)
        fresh == \/ Taken(msg) = "accepted"
                 \/ mid.question_nr # frame.question_nr
        act == IF fresh THEN {} ELSE activated
    IN  /\ TryRecvReturns(chan)
        /\ app' = end
        /\ chan' = Received(chan)
        /\ tasks' = OpenButton(tasks, in)
        /\ ended' = NoTask
        /\ repaint' = FALSE
        /\ storage' = storage
        /\ frame' = [input |-> in, recv |-> Taken(msg),
                     question_nr |-> mid.question_nr, show |-> mid.show,
                     drawn |-> CurrentQuestion(mid).some,
                     displayed |-> Labels(mid, end),
                     changed |-> \/ mid.question_nr # app.question_nr
                                 \/ end.question_nr # mid.question_nr,
                     changed_before |-> frame.changed]
        /\ activated' = IF in.kind = "toggle" /\ CurrentQuestion(mid).some
                        THEN act \cup ({in.f} \cap Tracked) ELSE act

\* task.await returns Some(file)
PickFile ==
    /\ tasks.PickerOpen > 0
    /\ tasks' = [PickerOpen |-> tasks.PickerOpen - 1,
                 Reading |-> tasks.Reading + 1]
    /\ ended' = NoTask
    /\ UNCHANGED <<app, chan, repaint, storage, frame, activated>>

\* task.await returns None: the user closed the picker
CancelPick ==
    /\ tasks.PickerOpen > 0
    /\ tasks' = [tasks EXCEPT !.PickerOpen = tasks.PickerOpen - 1]
    /\ ended' = [NoTask EXCEPT !.state = "Cancelled"]
    /\ UNCHANGED <<app, chan, repaint, storage, frame, activated>>

\* file.read().await returns data; at most `cap` texts are left pending
ReadFile(data, cap) ==
    /\ tasks.Reading > 0
    /\ Len(Deliver(chan, data)) <= cap
    /\ tasks' = [tasks EXCEPT !.Reading = tasks.Reading - 1]
    /\ chan' = Deliver(chan, data)
    /\ ended' = [state |-> IF from_utf8(data).ok THEN "Delivered"
                                                 ELSE "DecodeFailed",
                 data |-> data]
    /\ repaint' = RequestRepaint(repaint, data)
    /\ UNCHANGED <<app, storage, frame, activated>>

\* fn save(&mut self, storage): the host calls it before shutdown, and
\* from time to time while the program runs
Save ==
    /\ storage.kind # "none"
    /\ storage' = set_value(app)
    /\ ended' = NoTask
    /\ UNCHANGED <<app, chan, tasks, repaint, frame, activated>>

\* the process ends, its tasks and its channel with it, and the program
\* is started again: MyApp::new with the store as it is
Restart ==
    /\ app' = new(storage)
    /\ chan' = <<>>
    /\ tasks' = [PickerOpen |-> 0, Reading |-> 0]
    /\ ended' = NoTask
    /\ repaint' = FALSE
    /\ frame' = NoFrame
    /\ activated' = {}
    /\ UNCHANGED storage

(***************************************************************************)
(* Spec: the controller with all its quiz controls and a load at a time.   *)
(***************************************************************************)
Next ==
    \/ \E in \in Inputs : Explored(in, QuizInputs, MaxLoads) /\ Update(in)
    \/ PickFile
    \/ CancelPick
    \/ \E data \in FileData : ReadFile(data, MaxPending)

Spec == Init /\ [][Next]_vars

(***************************************************************************)
(* SpecBridge: several loads in flight and several texts pending.          *)
(***************************************************************************)
NextBridge ==
    \/ \E in \in Inputs : Explored(in, BridgeInputs, MaxTasks) /\ Update(in)
    \/ PickFile
    \/ CancelPick
    \/ \E data \in FileData : ReadFile(data, MaxChan)

SpecBridge == Init /\ [][NextBridge]_vars

(***************************************************************************)
(* SpecStart: runs of the program one after the other, over the store.     *)
(* The first run finds a store of any kind.                                *)
(***************************************************************************)
StartInputs ==
    {NoInput, Input("open", 0, ""), Input("inc", 0, ""),
     Input("toggle", 0, "question")}

StartData == {[utf8 |-> TRUE, text |-> "two"]}

InitStart == \E st \in {NoStorage, Absent, Garbage, OldDocument} : Start(st)

NextStart ==
    \/ \E in \in Inputs : Explored(in, StartInputs, MaxLoads) /\ Update(in)
    \/ PickFile
    \/ CancelPick
    \/ \E data \in StartData : ReadFile(data, MaxPending)
    \/ Save
    \/ Restart

SpecStart == InitStart /\ [][NextStart]_vars

(***************************************************************************)
(* SpecScale: the two scale buttons, from the default scale.               *)
(***************************************************************************)
ScaleInputs == {in \in Inputs : in.kind \in {"none", "plus", "minus"}}

NextScale ==
    \E in \in Inputs :
        /\ Explored(in, ScaleInputs, MaxLoads)
        /\ in.kind = "plus" => app.pixels_per_point < MaxScale
        /\ Update(in)

SpecScale == Init /\ [][NextScale]_vars

(***************************************************************************)
(* SpecLive: SpecBridge with the one guarantee of the host runtime, that   *)
(* a requested redraw is executed.  Every other redraw (an incidental      *)
(* frame, a user's event) may or may not come.                             *)
(***************************************************************************)
RequestedRedraw ==
    /\ repaint
    /\ \E in \in Inputs : Explored(in, BridgeInputs, MaxTasks) /\ Update(in)

SpecLive == SpecBridge /\ WF_vars(RequestedRedraw)

(***************************************************************************)
(* What the claims are stated with.  The texts that spell a non-empty      *)
(* list of question records, and the list each spells, written out by      *)
(* hand.                                                                   *)
(***************************************************************************)
ValidTexts == {"one", "two"}

QuizOf(text) ==
    IF text = "one"
    THEN << Question("Q1", "H1", "H2", "A1") >>
    ELSE << Question("Q2", "H3", "H4", "A2"),
            Question("Q3", "H5", "H6", "A3") >>

NavKinds == {"dec", "entry", "inc"}

\* a step in which a redraw takes a text off the channel
Receives == Len(chan') < Len(chan)

\* a step in which a file-load task ends
TaskEnds == InFlight(tasks') < InFlight(tasks)

(***************************************************************************)
(* C1 as stated: for every text that parses as a non-empty list L, the     *)
(* redraw that receives it ends with the stored quiz equal to L and the    *)
(* current index 0, whatever the quiz and the index were before.           *)
(***************************************************************************)
C1_AfterRedraw ==
    [][ (Receives /\ Head(chan) \in ValidTexts) =>
           /\ app'.questions = Some(QuizOf(Head(chan)))
           /\ app'.question_nr = 0 ]_vars

(***************************************************************************)
(* C1 amended: for every text that parses as a non-empty list L, the       *)
(* redraw that receives it ends with the stored quiz equal to L; the       *)
(* index is 0 when that redraw draws its controls, and it is 0 when the    *)
(* redraw ends unless the user operates a navigation control ("<<", the    *)
(* numeric entry, ">>") in that same redraw.                               *)
(***************************************************************************)
C1_Load ==
    [][ (Receives /\ Head(chan) \in ValidTexts) =>
           /\ app'.questions = Some(QuizOf(Head(chan)))
           /\ frame'.question_nr = 0
           /\ frame'.input.kind \notin NavKinds => app'.question_nr = 0 ]_vars

\* a redraw has accepted the one-record quiz while the user clicked ">>"
C1_Witness ==
    /\ frame.recv = "accepted"
    /\ frame.input.kind = "inc"
    /\ app.questions = Some(QuizOf("one"))
    /\ app.question_nr = 1

(***************************************************************************)
(* C2: once a valid non-empty payload has been processed by the            *)
(* controller, the four visibility flags are all false, whatever the       *)
(* index, the shadow index and the flags were before.                      *)
(***************************************************************************)
C2_LoadResetsFlags ==
    frame.recv = "accepted" => frame.show = ShowDefault

(***************************************************************************)
(* C3: a delivered payload that is malformed or an empty list leaves the   *)
(* quiz, the index and the four flags as they were right before it was     *)
(* received (the flags as the redraw's own reset left them); a redraw      *)
(* with no reset due and no user interaction leaves the whole state as     *)
(* it was.                                                                 *)
(***************************************************************************)
C3_Rejected ==
    [][ (Receives /\ Head(chan) \notin ValidTexts) =>
           /\ app'.questions = app.questions
           /\ frame'.question_nr = app.question_nr
           /\ frame'.show = IF app.question_nr # app.prev_question_nr
                            THEN ShowDefault ELSE app.show
           /\ (frame'.input = NoInput
               /\ app.question_nr = app.prev_question_nr) => app' = app ]_vars

\* a redraw has rejected a payload; the two-record quiz and its index 1
\* are still there
C3_Witness ==
    /\ frame.recv = "rejected"
    /\ frame.input = NoInput
    /\ app.questions = Some(QuizOf("two"))
    /\ app.question_nr = 1
    /\ app.show.answer

(***************************************************************************)
(* C4: whenever the index changes its value in a redraw (by "<<", ">>",    *)
(* numeric entry, or the reset of an accepted load), all four visibility   *)
(* flags are false when the next redraw draws.                             *)
(***************************************************************************)
C4_ResetOnNextRedraw ==
    frame.changed_before => frame.show = ShowDefault

(***************************************************************************)
(* C5: in every redraw a field of the current record is displayed only if  *)
(* the user activated that field's toggle after that record became the     *)
(* current one, by navigation or by a load.                                *)
(***************************************************************************)
C5_HiddenUntilToggled ==
    \A f \in Tracked : f \in frame.displayed => f \in activated

(***************************************************************************)
(* C6: whenever a quiz is loaded, the current index lies in 0..len, len    *)
(* the length of the loaded list.                                          *)
(***************************************************************************)
C6_IndexInRange ==
    app.questions.some => app.question_nr \in 0..Len(app.questions.val)

\* a load has replaced the two-record quiz, left past its end, by the
\* one-record quiz
C6_Witness ==
    /\ frame.recv = "accepted"
    /\ app.questions = Some(QuizOf("one"))
    /\ app.prev_question_nr = 2
    /\ app.question_nr = 0

(***************************************************************************)
(* C7: a click on ">>" in a redraw that draws with the index at the        *)
(* length of the loaded quiz leaves the index at the length.               *)
(***************************************************************************)
C7_IncAtEnd ==
    (/\ frame.input.kind = "inc"
     /\ app.questions.some
     /\ frame.question_nr = Len(app.questions.val))
    => app.question_nr = Len(app.questions.val)

C7_Witness ==
    /\ frame.input.kind = "inc"
    /\ app.questions = Some(QuizOf("two"))
    /\ frame.question_nr = 2

(***************************************************************************)
(* C8: a click on "<<" in a redraw that draws with the index at 0 leaves   *)
(* the index at 0 and the flags as they are, and, unless that redraw       *)
(* accepted a load, leaves no flag reset due.                              *)
(***************************************************************************)
C8_DecAtZero ==
    (frame.input.kind = "dec" /\ frame.question_nr = 0)
    => /\ app.question_nr = 0
       /\ app.show = frame.show
       /\ frame.recv # "accepted" => app.prev_question_nr = 0

C8_Witness ==
    /\ frame.input.kind = "dec"
    /\ frame.drawn
    /\ frame.question_nr = 0
    /\ app.show.question
    /\ app.show.hint2

(***************************************************************************)
(* C9: a file-load task sends only in the step that ends it, and there     *)
(* one text, the decoded one, if the bytes it read are UTF-8 and nothing   *)
(* otherwise; a task that ends by a closed picker sends nothing; and no    *)
(* step of a task changes the controller's state.                          *)
(***************************************************************************)
C9_AtMostOne ==
    [][ /\ Len(chan') > Len(chan) => TaskEnds
        /\ TaskEnds =>
             /\ InFlight(tasks') = InFlight(tasks) - 1
             /\ app' = app
             /\ ended'.state \in {"Cancelled", "DecodeFailed", "Delivered"}
             /\ chan' = IF ended'.state # "Cancelled" /\ ended'.data.utf8
                        THEN Append(chan, ended'.data.text) ELSE chan
        /\ tasks'.Reading > tasks.Reading => chan' = chan /\ app' = app ]_vars

\* a second task has ended on bytes that are no UTF-8, with the first
\* task's quiz loaded and nothing pending
C9_Witness ==
    /\ ended.state = "DecodeFailed"
    /\ app.questions.some
    /\ chan = <<>>
    /\ tasks.PickerOpen = 1

(***************************************************************************)
(* C10 as stated: the texts are applied in the order they were sent, and   *)
(* the redraw that processes the last pending one, a valid list, ends      *)
(* with that list stored and the index 0.                                  *)
(***************************************************************************)
C10_LastWinsIndexZero ==
    [][ (Receives /\ chan' = <<>> /\ chan[Len(chan)] \in ValidTexts) =>
           /\ app'.questions = Some(QuizOf(chan[Len(chan)]))
           /\ app'.question_nr = 0 ]_vars

(***************************************************************************)
(* C10 amended: a text is sent behind the texts pending; each redraw       *)
(* takes the text sent first, and stores its list if it is a valid one;    *)
(* the redraw that processes the last pending text, a valid list, ends     *)
(* with that list stored; the index is 0 when it draws, and 0 when it      *)
(* ends unless the user operates a navigation control in that redraw.      *)
(***************************************************************************)
C10_LastWins ==
    [][ /\ Len(chan') > Len(chan) =>
             /\ Len(chan') = Len(chan) + 1
             /\ SubSeq(chan', 1, Len(chan)) = chan
        /\ Receives =>
             /\ chan' = Tail(chan)
             /\ Head(chan) \in ValidTexts =>
                   app'.questions = Some(QuizOf(Head(chan)))
        /\ (Receives /\ chan' = <<>> /\ chan[Len(chan)] \in ValidTexts) =>
             /\ app'.questions = Some(QuizOf(chan[Len(chan)]))
             /\ frame'.question_nr = 0
             /\ frame'.input.kind \notin NavKinds => app'.question_nr = 0 ]_vars

\* of two texts pending, a redraw has stored the list of the one sent
\* first; the one sent last is still pending
C10_Witness ==
    /\ frame.recv = "accepted"
    /\ app.questions = Some(QuizOf("two"))
    /\ chan = <<"one">>
    /\ ended.state = "Idle"

(***************************************************************************)
(* C11: every text put on the channel is eventually received by a redraw,  *)
(* given only that requested redraws are executed, also when several       *)
(* tasks deliver before the next redraw.  The channel is first-in          *)
(* first-out and a receive is the one step that shortens it, so a text is  *)
(* never received exactly if the channel keeps one non-zero length for     *)
(* ever: the claim says that it never does.                                *)
(***************************************************************************)
C11_EventuallyReceived ==
    \A n \in 1..MaxChan : []<>(Len(chan) # n)

(***************************************************************************)
(* C12: in every reachable state, whatever number of file-load tasks are   *)
(* at the picker or reading and whether or not the channel is empty, a     *)
(* redraw can run and runs to completion, and so can a redraw that        *)
(* handles "Quiz öffnen": it completes with the new task left at its       *)
(* first await and the other tasks where they were.                        *)
(***************************************************************************)
C12_NeverBlocks ==
    /\ ENABLED Update(NoInput)
    /\ ENABLED ( /\ Update(Input("open", 0, ""))
                /\ tasks'.PickerOpen = tasks.PickerOpen + 1
                /\ tasks'.Reading = tasks.Reading )

\* a redraw has started a load while another task is reading and nothing
\* is on the channel
C12_Witness ==
    /\ frame.input.kind = "open"
    /\ tasks.PickerOpen = 1
    /\ tasks.Reading = 1
    /\ chan = <<>>

\* the program has started and no redraw has run yet
Started == frame.input.kind = "start"

(***************************************************************************)
(* C13 as stated: whatever was saved before, the state after startup has   *)
(* no quiz loaded.                                                         *)
(***************************************************************************)
C13_NoQuizAfterStart ==
    Started => ~app.questions.some

(***************************************************************************)
(* C13 amended: save writes the quiz and the index of the state into the   *)
(* record, and the state after startup has the quiz and the index of the   *)
(* record in the store; it has no quiz, and the index 0, exactly when the  *)
(* record holds no quiz, when the store holds no record or one that does   *)
(* not decode, or when there is no store.                                  *)
(***************************************************************************)
C13_RestoredAsSaved ==
    [][ /\ storage' # storage =>
              /\ storage'.kind = "document"
              /\ "questions" \in DOMAIN storage'.doc
              /\ storage'.doc.questions = app.questions
              /\ storage'.doc.question_nr = app.question_nr
        /\ Started' =>
              IF storage'.kind = "document"
                 /\ "questions" \in DOMAIN storage'.doc
              THEN /\ app'.questions = storage'.doc.questions
                   /\ app'.question_nr = storage'.doc.question_nr
              ELSE /\ app'.questions = None
                   /\ app'.question_nr = 0 ]_vars

\* the program has started with the two-record quiz at index 1
C13_Witness ==
    /\ Started
    /\ app.questions = Some(QuizOf("two"))
    /\ app.question_nr = 1

(***************************************************************************)
(* C14: after startup the four visibility flags are all false, whatever    *)
(* flags the record in the store holds, and also without a store, without  *)
(* a record, or with one that does not decode.                             *)
(***************************************************************************)
C14_FlagsFalseAtStart ==
    Started => app.show = ShowDefault

\* the program has started from a record whose question flag is set
C14_Witness ==
    /\ Started
    /\ storage.kind = "document"
    /\ "show" \in DOMAIN storage.doc
    /\ storage.doc.show.question

(***************************************************************************)
(* C15 as stated: from the default scale, under any sequence of "+" and    *)
(* "−", the display scale stays strictly above the floor.                  *)
(***************************************************************************)
C15_AboveFloor ==
    app.pixels_per_point > PixelsFloor

(***************************************************************************)
(* C15 amended: from the default scale, under any sequence of "+" and      *)
(* "−", the display scale never drops below the floor; it reaches the      *)
(* floor, and a further "−" leaves it there.                               *)
(***************************************************************************)
C15_NotBelowFloor ==
    /\ app.pixels_per_point >= PixelsFloor
    /\ ~ENABLED ( /\ app.pixels_per_point = PixelsFloor
                 /\ Update(Input("minus", 0, ""))
                 /\ app'.pixels_per_point # PixelsFloor )

\* "−" was clicked and the scale is at the floor
C15_Witness ==
    /\ frame.input.kind = "minus"
    /\ app.pixels_per_point = PixelsFloor

\* a step in which a redraw draws the controls and handles the toggle of f
ToggleStep(f) ==
    /\ tasks' = tasks
    /\ frame'.input = Input("toggle", 0, f)
    /\ frame'.drawn

(***************************************************************************)
(* C16: a redraw that handles the toggle of one field ends with that       *)
(* field's flag flipped and with the other three flags and the index as    *)
(* they were when it drew its controls, and it leaves the quiz list as it  *)
(* is (a list it has just received apart); the redraw shows the text of    *)
(* exactly the fields whose flag is then true, and an empty label for the  *)
(* others.                                                                 *)
(***************************************************************************)
C16_ToggleFlipsOne ==
    [][ \A f \in Fields : ToggleStep(f) =>
          /\ app'.show[f] = ~frame'.show[f]
          /\ \A g \in Fields \ {f} : app'.show[g] = frame'.show[g]
          /\ app'.question_nr = frame'.question_nr
          /\ frame'.recv # "accepted" => app'.questions = app.questions
          /\ frame'.recv = "accepted" => app'.questions = Some(QuizOf(Head(chan)))
          /\ frame'.displayed = {g \in Fields : app'.show[g]} ]_vars

\* a redraw has flipped the question flag from true to false and shows
\* the first hint alone
C16_Witness ==
    /\ frame.input = Input("toggle", 0, "question")
    /\ frame.drawn
    /\ frame.show.question
    /\ ~app.show.question
    /\ frame.displayed = {"hint1"}

(***************************************************************************)
(* C17: in every reachable state the stored quiz is absent or a non-empty  *)
(* list, whatever texts were delivered (valid, malformed, an empty list)   *)
(* and whatever the user did.                                              *)
(***************************************************************************)
C17_AbsentOrNonEmpty ==
    app.questions.some => Len(app.questions.val) >= 1

\* a redraw has received the text of an empty list while a quiz was stored
C17_Witness ==
    /\ frame.recv = "empty"
    /\ app.questions = Some(QuizOf("one"))

\* a step that is a redraw: the tasks do not advance
RedrawStep ==
    /\ tasks'.Reading = tasks.Reading
    /\ tasks'.PickerOpen >= tasks.PickerOpen

(***************************************************************************)
(* C18: a redraw takes the oldest pending text off the channel when there  *)
(* is one, and no more than that one: of k pending texts the other k-1     *)
(* stay queued in the order they were sent, so that k redraws are needed   *)
(* to receive them all.  No other step takes a text off the channel.       *)
(***************************************************************************)
C18_OnePerRedraw ==
    [][ /\ RedrawStep =>
              chan' = IF chan = <<>> THEN <<>> ELSE Tail(chan)
        /\ Receives => RedrawStep ]_vars

\* of two pending texts a redraw has received the first; the second is
\* still queued
C18_Witness ==
    /\ frame.recv = "accepted"
    /\ app.questions = Some(QuizOf("one"))
    /\ chan = <<"two">>
    /\ ended = NoTask
    /\ InFlight(tasks) = 0

\* the index equals the length of the loaded quiz
PastEnd ==
    /\ app.questions.some
    /\ app.question_nr = Len(app.questions.val)

\* a step in which a redraw receives a text and accepts it
AcceptStep == Receives /\ Head(chan) \in ValidTexts

(***************************************************************************)
(* C19: once the index equals the length of the loaded quiz, a redraw      *)
(* that accepts no load draws no record and none of the controls, and      *)
(* whatever the user operates it leaves the quiz and the index as they     *)
(* are and the flags as a redraw without any interaction leaves them       *)
(* (reset if the index was changed since the last redraw, unchanged        *)
(* otherwise); a redraw that accepts a load draws with the index 0.        *)
(***************************************************************************)
C19_PastEndStays ==
    [][ PastEnd =>
          IF AcceptStep
          THEN /\ frame'.question_nr = 0
               /\ frame'.drawn
          ELSE /\ app'.questions = app.questions
               /\ app'.question_nr = app.question_nr
               /\ app'.show = IF /\ RedrawStep
                                 /\ app.question_nr # app.prev_question_nr
                              THEN ShowDefault ELSE app.show
               /\ RedrawStep => /\ ~frame'.drawn
                                /\ frame'.displayed = {} ]_vars

\* a redraw has handled a toggle with the index past the end of the
\* two-record quiz
C19_Witness ==
    /\ frame.input.kind = "toggle"
    /\ ~frame.drawn
    /\ app.questions = Some(QuizOf("two"))
    /\ app.question_nr = 2

====
